---- MODULE Spec2Model ----
(***************************************************************************)
(* MTAT publishing pipeline (upload-to-moodle.py) and the ledger writer of *)
(* generate-variant.py.                                                    *)
(*                                                                         *)
(* Python strings that the code inspects character by character are        *)
(* sequences of one-character strings; identifiers that the code only      *)
(* compares or passes along are TLA+ strings.  Python dicts, which keep    *)
(* insertion order, are records [order, ...] holding the key sequence.     *)
(***************************************************************************)
EXTENDS Integers, Sequences, FiniteSets, TLC

VARIABLES
    raw_md,          \* upload_variants_to_book: text read from a variant file
    body_md,         \* upload_variants_to_book: strip_front_matter(raw_md)
    restripped,      \* strip_front_matter applied to body_md once more
    pc,              \* position of the running process
    args,            \* main: parsed command line (token, setup_moodle, get_token, course_id)
    cache_file,      \* contents of TOKEN_CACHE_FILE on disk, or NoFile
    manifest,        \* the ledger file on disk: Missing, NullDoc or a sequence of entries
    token,           \* main: the resolved token
    entries,         \* main: entries loaded (and filtered)
    courses,         \* main: result of group_by_course
    ci,              \* main: 1-based position in courses.items()
    mi,              \* main: 1-based position in course_data["modules"].items()
    vi,              \* upload_variants_to_book: 1-based position in variants
    module_title,    \* main: title of the module being uploaded
    moodle_course_id,\* main: value returned by ensure_course
    polls,           \* wait_for_moodle: polls made so far
    remote_courses,  \* the LMS's courses, by ascending id
    lms_forms,       \* how the LMS answers the requests of the web-form path
    lms_db,          \* the LMS database tables the mint script writes
    gen,             \* generate-variant.py: the processes inside update_manifest
    netlog,          \* every HTTP call issued, with the LMS's answer
    oslog,           \* local file-system and exec-channel operations
    console,         \* what the run printed (stdout, and tracebacks)
    exit_code,       \* process exit code, Running while the run is under way
    run              \* number of the publish run against this LMS

stripVars == <<raw_md, body_md, restripped>>
localVars == <<token, entries, courses, ci, mi, vi, module_title, moodle_course_id, polls>>
worldVars == <<args, cache_file, manifest, remote_courses, lms_forms, lms_db, gen>>
logVars == <<netlog, oslog, console>>
runVars == <<localVars, worldVars, logVars, exit_code, run>>
vars == <<stripVars, pc, runVars>>

(***************************************************************************)
(* Bounds of the exploration.                                              *)
(***************************************************************************)
MaxChunks == 7       \* a variant text is at most this many chunks long
MaxEntries == 2      \* a ledger of a publish run holds at most this many entries
MaxPolls == 2        \* polls wait_for_moodle makes before its deadline passes
MaxRuns == 2         \* publish runs made one after another
MaxGroupEntries == 3 \* entries handed to group_by_course on its own
MaxWriters == 3      \* generation runs that call update_manifest on one ledger

(***************************************************************************)
(* Python string primitives (0-based offsets, as in the code).             *)
(***************************************************************************)
Fence == <<"-", "-", "-">>                 \* "---"
ClosingFence == <<"\n", "-", "-", "-">>    \* "\n---"
Whitespace == {" ", "\n", "\t", "\r"}

\* text[from:]
SliceFrom(text, from) == SubSeq(text, from + 1, Len(text))

\* text.startswith(prefix)
startswith(text, prefix) ==
    /\ Len(text) >= Len(prefix)
    /\ SubSeq(text, 1, Len(prefix)) = prefix

\* text.find(sub, start): lowest offset >= start where sub occurs, else -1
RECURSIVE find(_, _, _)
find(text, sub, start) ==
    IF start + Len(sub) > Len(text) THEN -1
    ELSE IF SubSeq(text, start + 1, start + Len(sub)) = sub THEN start
    ELSE find(text, sub, start + 1)

\* text.lstrip()
RECURSIVE lstrip(_)
lstrip(text) ==
    IF text # <<>> /\ Head(text) \in Whitespace THEN lstrip(Tail(text)) ELSE text

\* strip_front_matter without the lstrip() of the remainder
strip_front_matter_no_lstrip(text) ==
    IF startswith(text, Fence)
    THEN LET end == find(text, ClosingFence, 3)
         IN  IF end # -1 THEN SliceFrom(text, end + 4) ELSE text
    ELSE text

\* strip_front_matter without the test of find's result against -1
strip_front_matter_no_found_test(text) ==
    IF startswith(text, Fence)
    THEN LET end == find(text, ClosingFence, 3)
         IN  lstrip(SliceFrom(text, end + 4))
    ELSE text

strip_front_matter(text) ==
    IF startswith(text, Fence)
    THEN LET end == find(text, ClosingFence, 3)
         IN  IF end # -1 THEN lstrip(SliceFrom(text, end + 4)) ELSE text
    ELSE text

(***************************************************************************)
(* Texts: concatenations of at most MaxChunks chunks, and the document of  *)
(* the specification's example, "---\nid: x\n---\n\nBody".                 *)
(***************************************************************************)
Chunks == {Fence, <<"\n">>, <<" ">>, <<"a">>}

RECURSIVE Flatten(_)
Flatten(ss) == IF ss = <<>> THEN <<>> ELSE Head(ss) \o Flatten(Tail(ss))

Texts == {Flatten(ss) : ss \in UNION {[1..n -> Chunks] : n \in 0..MaxChunks}}

ExampleDoc ==
    <<"-", "-", "-", "\n", "i", "d", ":", " ", "x", "\n",
      "-", "-", "-", "\n", "\n", "B", "o", "d", "y">>
ExampleBody == <<"B", "o", "d", "y">>

(***************************************************************************)
(* Ledger entries.  A key the mapping does not hold has the value NoField. *)
(***************************************************************************)
NoField == "<no field>"
FallbackCourse == "mtat-preview"
UnknownModule == "unknown"
UnknownAudience == "unknown"
DefaultLocale == "en-US"

\* entry.get(key, default)
get(entry, key, default) == IF entry[key] = NoField THEN default ELSE entry[key]

\* generate_variant: the directory of a module, and the file a variant is written to
ModulePathOf(module_id) == "example-course/" \o module_id
OutputFileOf(module_id, audience, locale) ==
    "variants/" \o module_id \o "/" \o audience \o "-" \o locale \o ".md"

\* generate_variant: the mapping handed to update_manifest (course_id added for
\* ledgers that carry one)
Entry(course_id, module_id, audience) ==
    [course_id   |-> course_id,
     module_id   |-> module_id,
     module_path |-> ModulePathOf(module_id),
     audience    |-> audience,
     locale      |-> DefaultLocale,
     output_file |-> OutputFileOf(module_id, audience, DefaultLocale)]

\* no generation run is under way
NoGen == [writers |-> <<>>, start |-> <<>>, done |-> <<>>]

(***************************************************************************)
(* Python dicts: order is the sequence of keys in insertion order, val the *)
(* mapping.                                                                *)
(***************************************************************************)
EmptyDict == [order |-> <<>>, val |-> <<>>]

DictHas(d, k) == k \in DOMAIN d.val

\* d[k] = v with a new key put in front of the keys already there
DictPutFront(d, k, v) ==
    IF DictHas(d, k)
    THEN [order |-> d.order, val |-> [d.val EXCEPT ![k] = v]]
    ELSE [order |-> <<k>> \o d.order, val |-> (k :> v) @@ d.val]

\* d[k] = v: a new key goes after the keys already there
DictPut(d, k, v) ==
    IF DictHas(d, k)
    THEN [order |-> d.order, val |-> [d.val EXCEPT ![k] = v]]
    ELSE [order |-> Append(d.order, k), val |-> (k :> v) @@ d.val]

\* course_id.replace("-", " ").title(), on the course keys of the model
course_title(course_id) ==
    CASE course_id = "mtat-preview" -> "Mtat Preview"
      [] course_id = "c1" -> "C1"
      [] course_id = "c2" -> "C2"
      [] OTHER -> course_id

\* one iteration of group_by_course's loop, the entry put in front of its module's
\* variants
group_entry_prepend(grouped, entry) ==
    LET course_id == get(entry, "course_id", FallbackCourse)
        withCourse ==
            IF ~DictHas(grouped, course_id)
            THEN DictPut(grouped, course_id,
                         [title |-> course_title(course_id), modules |-> EmptyDict])
            ELSE grouped
        mod_id == get(entry, "module_id", get(entry, "module_path", UnknownModule))
        course == withCourse.val[course_id]
        mods == course.modules
        variants == IF DictHas(mods, mod_id) THEN mods.val[mod_id] ELSE <<>>
    IN  DictPut(withCourse, course_id,
                [title |-> course.title,
                 modules |-> DictPut(mods, mod_id, <<entry>> \o variants)])

\* one iteration of group_by_course's loop, the entry taking the place of its
\* module's variants
group_entry_replace(grouped, entry) ==
    LET course_id == get(entry, "course_id", FallbackCourse)
        withCourse ==
            IF ~DictHas(grouped, course_id)
            THEN DictPut(grouped, course_id,
                         [title |-> course_title(course_id), modules |-> EmptyDict])
            ELSE grouped
        mod_id == get(entry, "module_id", get(entry, "module_path", UnknownModule))
        course == withCourse.val[course_id]
    IN  DictPut(withCourse, course_id,
                [title |-> course.title,
                 modules |-> DictPut(course.modules, mod_id, <<entry>>)])

\* one iteration of group_by_course's loop
group_entry(grouped, entry) ==
    LET course_id == get(entry, "course_id", FallbackCourse)
        withCourse ==
            IF ~DictHas(grouped, course_id)
            THEN DictPut(grouped, course_id,
                         [title |-> course_title(course_id), modules |-> EmptyDict])
            ELSE grouped
        mod_id == get(entry, "module_id", get(entry, "module_path", UnknownModule))
        course == withCourse.val[course_id]
        mods == course.modules
        variants == IF DictHas(mods, mod_id) THEN mods.val[mod_id] ELSE <<>>
    IN  DictPut(withCourse, course_id,
                [title |-> course.title,
                 modules |-> DictPut(mods, mod_id, Append(variants, entry))])

RECURSIVE group_loop(_, _)
group_loop(grouped, es) ==
    IF es = <<>> THEN grouped ELSE group_loop(group_entry(grouped, Head(es)), Tail(es))

group_by_course(es) == group_loop(EmptyDict, es)

(***************************************************************************)
(* The publish run: values of main's state.                                *)
(***************************************************************************)
None == "<None>"            \* Python's None, for a string-valued option
NoFile == "<no file>"       \* TOKEN_CACHE_FILE does not exist
Running == -1               \* exit_code of a run that has not ended

\* Python truth value of an optional string
truthy(s) == s \notin {None, ""}

\* TOKEN_CACHE_FILE.read_text().strip(), on the cache contents of the model
cache_strip(contents) ==
    CASE contents = "tokC\n" -> "tokC"
      [] contents = "\n" -> ""
      [] OTHER -> contents

\* main: the cache file is never read
should_read_cache_never(tok, cache) == FALSE

\* main: the cache file is read whatever the token so far
should_read_cache_always(tok, cache) == cache # NoFile

\* main: "if not token and TOKEN_CACHE_FILE.exists()"
should_read_cache(tok, cache) == ~truthy(tok) /\ cache # NoFile

\* main: "if not token or args.setup_moodle"
needs_setup(tok, setup_moodle) == ~truthy(tok) \/ setup_moodle

\* the ledger file: state is "missing", "null" (the document parses to None) or "list"
ManifestFile(state, es) == [state |-> state, entries |-> es]

\* load_manifest, for a file that exists
load_manifest(file) == IF file.state = "list" THEN file.entries ELSE <<>>

\* main: the course filter applied to the key group_by_course files an entry under
filter_entries_by_group_key(es, course_id) ==
    SelectSeq(es, LAMBDA e : get(e, "course_id", FallbackCourse) = course_id)

\* main: the course filter, "e.get('course_id') == args.course_id"
filter_entries(es, course_id) == SelectSeq(es, LAMBDA e : e.course_id = course_id)

\* main, from "Load manifest" to group_by_course, with the filter applied before the
\* test for an empty manifest
main_load_filter_first(file, course_id) ==
    IF file.state = "missing"
    THEN [exit |-> 1, msg |-> "no_manifest", entries |-> <<>>]
    ELSE LET loaded == load_manifest(file)
             es == IF truthy(course_id) THEN filter_entries(loaded, course_id) ELSE loaded
         IN  IF truthy(course_id) /\ es = <<>>
             THEN [exit |-> 1, msg |-> "no_variants", entries |-> <<>>]
             ELSE IF es = <<>>
             THEN [exit |-> 0, msg |-> "manifest_empty", entries |-> <<>>]
             ELSE [exit |-> Running, msg |-> "uploading", entries |-> es]

\* main, from "Load manifest" to group_by_course, with a missing ledger file taken
\* for an empty ledger
main_load_missing_empty(file, course_id) ==
    LET loaded == load_manifest(file)
    IN  IF loaded = <<>>
        THEN [exit |-> 0, msg |-> "manifest_empty", entries |-> <<>>]
        ELSE IF truthy(course_id)
        THEN LET es == filter_entries(loaded, course_id)
             IN  IF es = <<>>
                 THEN [exit |-> 1, msg |-> "no_variants", entries |-> <<>>]
                 ELSE [exit |-> Running, msg |-> "uploading", entries |-> es]
        ELSE [exit |-> Running, msg |-> "uploading", entries |-> loaded]

\* main, from "Load manifest" to group_by_course: the exit taken, or Running, and
\* the entries to publish
main_load(file, course_id) ==
    IF file.state = "missing"
    THEN [exit |-> 1, msg |-> "no_manifest", entries |-> <<>>]
    ELSE LET loaded == load_manifest(file)
         IN  IF loaded = <<>>
             THEN [exit |-> 0, msg |-> "manifest_empty", entries |-> <<>>]
             ELSE IF truthy(course_id)
             THEN LET es == filter_entries(loaded, course_id)
                  IN  IF es = <<>>
                      THEN [exit |-> 1, msg |-> "no_variants", entries |-> <<>>]
                      ELSE [exit |-> Running, msg |-> "uploading", entries |-> es]
             ELSE [exit |-> Running, msg |-> "uploading", entries |-> loaded]

\* wait_for_moodle: returns after the first poll, whatever became of it
poll_ready_any(status) == TRUE

\* wait_for_moodle: "if r.status_code == 200: return"; a request that raises or is
\* answered with another status ("error") is followed by a sleep and the next poll
poll_ready(status) == status = "ok"

\* api: only a failure of the transport raises
api_raises_on_transport_only(status) == status = "error"

\* api: raise_for_status() raises on a failed request ("error"), and RuntimeError
\* is raised when the decoded response is a dict with an "exception" key
api_raises(status) == status \in {"error", "exception"}

\* the exception that ends a REST call
api_exception(status) == IF status = "exception" THEN "RuntimeError" ELSE "RequestError"

\* ensure_course: the lookup's courses are never taken for a hit
lookup_hit_never(found) == FALSE

\* ensure_course: "if courses"
lookup_hit(found) == found # <<>>

\* ensure_course: the creation call with title and identifier swapped
create_fields_swapped(course_id, title) ==
    [fullname |-> course_id, shortname |-> title, idnumber |-> title]

\* ensure_course: the fields of the creation call (shortname is course_id[:100])
create_fields(course_id, title) ==
    [fullname |-> title, shortname |-> course_id, idnumber |-> course_id]

\* upload_variants_to_book: the page title without the locale
page_title_no_locale(title, audience, locale) == <<title, " [", audience, "]">>

\* upload_variants_to_book: f"{module_title} [{audience} / {locale}]"
page_title(title, audience, locale) == <<title, " [", audience, " / ", locale, "]">>

\* upload_variants_to_book: a missing file ends the module's loop
next_after_skip_break(i, n) == n + 1

\* upload_variants_to_book: "continue" after a missing file
next_after_skip(i, n) == i + 1

\* the title field of a module's metadata.yaml
MetaTitle(module_id) == "Title of " \o module_id

\* what a variant file holds: front matter and the adapted text
VariantText == ExampleDoc

(***************************************************************************)
(* The logs.                                                               *)
(***************************************************************************)
\* an HTTP call: which, its identifying fields, the outcome and the ids answered
\* (session and field are those of a web-form call: the requests.Session that
\* carried it and the anti-forgery value it sent)
Net(call, idnumber, course, title, status, ids) ==
    [run |-> run, call |-> call, idnumber |-> idnumber, course |-> course,
     title |-> title, status |-> status, ids |-> ids, session |-> 0, field |-> ""]

\* a local operation: cache_read, cache_write, docker_exec, file_exists
Os(op, path, ok) == [run |-> run, op |-> op, path |-> path, ok |-> ok]

\* a printed line
Out(msg, idnumber, course, title, path) ==
    [run |-> run, msg |-> msg, idnumber |-> idnumber, course |-> course,
     title |-> title, path |-> path]

Say(msg) == Out(msg, "", 0, <<>>, "")

(***************************************************************************)
(* The LMS.                                                                *)
(***************************************************************************)
\* core_course_get_courses_by_field(field="idnumber"): ids of the matching courses
RemoteLookup(idnumber) ==
    LET hits == SelectSeq(remote_courses, LAMBDA c : c.idnumber = idnumber)
    IN  [i \in 1..Len(hits) |-> hits[i].id]

\* the id the LMS gives the next course (id 1 is the site itself)
RemoteNextId == Len(remote_courses) + 2

\* the anti-forgery values the LMS's pages carry
LoginToken == "LT"
SessKey == "SK"

\* the LMS's web forms: whether the login page carries a logintoken field, whether
\* the add-resource form carries a sesskey, and the class of the HTTP status the
\* web-form requests are answered with
Forms(logintoken, sesskey, status) ==
    [logintoken |-> logintoken, sesskey |-> sesskey, status |-> status]
NormalForms == Forms(TRUE, TRUE, "2xx")

\* the tables of the LMS database the mint script writes (external_services,
\* external_services_functions, external_tokens) before any mint, and the id the
\* next row of external_services gets
EmptyDb == [services |-> {}, functions |-> {}, tokens |-> {}, next_id |-> 1]

ServiceShortName == "mtat_upload"
ServiceFunctions ==
    {"core_course_create_courses", "core_course_get_courses_by_field",
     "mod_book_get_books_by_courses", "core_course_get_contents",
     "core_webservice_get_site_info", "mod_book_view_book"}

\* md5(uniqid(rand(), true)): the token the mint script makes and echoes, a new one
\* at every mint
MintedToken == "tokM" \o ToString(lms_db.next_id)

\* MOODLE_CLI_SCRIPT, steps 3 to 5, on the tables
mint_script(db) ==
    LET kept == {s \in db.services : s.shortname # ServiceShortName}
        sid == db.next_id
        services == kept \cup {[id |-> sid, shortname |-> ServiceShortName]}
        functions == db.functions \cup {[sid |-> sid, fname |-> f] : f \in ServiceFunctions}
        tokens == {t \in db.tokens : t.sid # sid}
    IN  [services |-> services,
         functions |-> functions,
         tokens |-> tokens \cup {[token |-> MintedToken, sid |-> sid]},
         next_id |-> sid + 1]

(***************************************************************************)
(* main's position in the nested loops.                                    *)
(***************************************************************************)
CurCourseId == courses.order[ci]
CurCourse == courses.val[CurCourseId]
CurModuleId == CurCourse.modules.order[mi]
CurVariants == CurCourse.modules.val[CurModuleId]

\* the process ends: sys.exit(code), a return from main, or an unhandled exception
Exit(code, line) ==
    /\ pc' = "exited"
    /\ exit_code' = code
    /\ console' = Append(console, line)

Crash(exception) == Exit(1, Say(exception))

(***************************************************************************)
(* State at the start of a run's process.                                  *)
(***************************************************************************)
FreshLocals ==
    /\ token = None
    /\ entries = <<>>
    /\ courses = EmptyDict
    /\ ci = 0
    /\ mi = 0
    /\ vi = 0
    /\ module_title = ""
    /\ moodle_course_id = 0
    /\ polls = 0

NoText ==
    /\ raw_md = <<>>
    /\ body_md = <<>>
    /\ restripped = <<>>

EmptyLogs ==
    /\ netlog = <<>>
    /\ oslog = <<>>
    /\ console = <<>>

\* a world in which no run takes place (strip_front_matter and group_by_course on
\* their own)
NoRun ==
    /\ FreshLocals
    /\ EmptyLogs
    /\ args = [token |-> None, setup_moodle |-> FALSE, get_token |-> FALSE,
               course_id |-> None]
    /\ cache_file = NoFile
    /\ remote_courses = <<>>
    /\ lms_forms = NormalForms
    /\ lms_db = EmptyDb
    /\ exit_code = Running
    /\ run = 0

(***************************************************************************)
(* main: token resolution.                                                 *)
(***************************************************************************)
ResolveToken ==
    /\ pc = "resolve_token"
    /\ LET read == should_read_cache(args.token, cache_file)
           tok == IF read THEN cache_strip(cache_file) ELSE args.token
       IN  /\ token' = tok
           /\ oslog' = IF read THEN Append(oslog, Os("cache_read", ".moodle-token", TRUE))
                       ELSE oslog
           /\ pc' = IF needs_setup(tok, args.setup_moodle)
                    THEN "wait_for_moodle" ELSE "get_token"
    /\ UNCHANGED <<stripVars, entries, courses, ci, mi, vi, module_title,
                   moodle_course_id, polls, worldVars, netlog, console, exit_code, run>>

\* wait_for_moodle: one poll of the login page; the deadline passes after MaxPolls
\* unanswered polls
WaitPoll ==
    /\ pc = "wait_for_moodle"
    /\ polls < MaxPolls
    /\ \E status \in {"ok", "error"} :
          /\ netlog' = Append(netlog, Net("poll", "", 0, <<>>, status, <<>>))
          /\ IF poll_ready(status)
             THEN pc' = "setup_moodle" /\ polls' = polls
             ELSE pc' = pc /\ polls' = polls + 1
    /\ UNCHANGED <<stripVars, token, entries, courses, ci, mi, vi, module_title,
                   moodle_course_id, worldVars, oslog, console, exit_code, run>>

\* wait_for_moodle: raise TimeoutError
WaitTimeout ==
    /\ pc = "wait_for_moodle"
    /\ polls >= MaxPolls
    /\ Crash("TimeoutError")
    /\ UNCHANGED <<stripVars, localVars, worldVars, netlog, oslog, run>>

\* setup_moodle_webservices, and main's write of the token cache
SetupMoodle ==
    /\ pc = "setup_moodle"
    /\ \E ok \in BOOLEAN :
          IF ok
          THEN /\ token' = MintedToken
               /\ cache_file' = MintedToken
               /\ lms_db' = mint_script(lms_db)
               /\ oslog' = oslog \o <<Os("docker_exec", "/tmp/mtat_setup.php", TRUE),
                                      Os("cache_write", ".moodle-token", TRUE)>>
               /\ console' = Append(console, Say("token_cached"))
               /\ pc' = "get_token"
               /\ UNCHANGED exit_code
          ELSE /\ oslog' = Append(oslog, Os("docker_exec", "/tmp/mtat_setup.php", FALSE))
               /\ Crash("RuntimeError")
               /\ UNCHANGED <<token, cache_file, lms_db>>
    /\ UNCHANGED <<stripVars, entries, courses, ci, mi, vi, module_title,
                   moodle_course_id, polls, args, manifest, remote_courses, lms_forms,
                   gen, netlog, run>>

\* main: "if args.get_token"
GetToken ==
    /\ pc = "get_token"
    /\ IF args.get_token
       THEN Exit(0, Say("token_printed"))
       ELSE pc' = "verify" /\ UNCHANGED <<console, exit_code>>
    /\ UNCHANGED <<stripVars, localVars, worldVars, netlog, oslog, run>>

\* main: "Verify token works"
VerifyToken ==
    /\ pc = "verify"
    /\ \E status \in {"ok", "error", "exception"} :
          /\ netlog' = Append(netlog, Net("site_info", "", 0, <<>>, status, <<>>))
          /\ IF api_raises(status)
             THEN Exit(1, Say("validation_failed"))
             ELSE /\ console' = Append(console, Say("connected"))
                  /\ pc' = "load_manifest"
                  /\ UNCHANGED exit_code
    /\ UNCHANGED <<stripVars, localVars, worldVars, oslog, run>>

(***************************************************************************)
(* main: load, filter and group the ledger.                                *)
(***************************************************************************)
\* main: load, filter and group the ledger, and write the entries kept back to the
\* ledger file
LoadManifestRewrites ==
    /\ pc = "load_manifest"
    /\ LET got == main_load(manifest, args.course_id)
       IN  /\ manifest' = ManifestFile(IF manifest.state = "missing" THEN "missing" ELSE "list",
                                       got.entries)
           /\ IF got.exit # Running
              THEN /\ Exit(got.exit, Say(got.msg))
                   /\ UNCHANGED <<entries, courses, ci>>
              ELSE /\ entries' = got.entries
                   /\ courses' = group_by_course(got.entries)
                   /\ ci' = 1
                   /\ console' = Append(console, Say(got.msg))
                   /\ pc' = "course"
                   /\ UNCHANGED exit_code
    /\ UNCHANGED <<stripVars, token, mi, vi, module_title, moodle_course_id, polls,
                   args, cache_file, remote_courses, lms_forms, lms_db, gen, netlog,
                   oslog, run>>

LoadManifest ==
    /\ pc = "load_manifest"
    /\ LET got == main_load(manifest, args.course_id)
       IN  IF got.exit # Running
           THEN /\ Exit(got.exit, Say(got.msg))
                /\ UNCHANGED <<entries, courses, ci>>
           ELSE /\ entries' = got.entries
                /\ courses' = group_by_course(got.entries)
                /\ ci' = 1
                /\ console' = Append(console, Say(got.msg))
                /\ pc' = "course"
                /\ UNCHANGED exit_code
    /\ UNCHANGED <<stripVars, token, mi, vi, module_title, moodle_course_id, polls,
                   worldVars, netlog, oslog, run>>

(***************************************************************************)
(* ensure_course: the lookup, and the creation call after a miss.          *)
(***************************************************************************)
EnsureCourseLookup ==
    /\ pc = "course"
    /\ ci <= Len(courses.order)
    /\ \E status \in {"ok", "error", "exception"} :
          LET found == IF status = "ok" THEN RemoteLookup(CurCourseId) ELSE <<>>
          IN  /\ netlog' = Append(netlog,
                      Net("get_courses_by_field", CurCourseId, 0, <<>>, status, found))
              /\ IF api_raises(status)
                 THEN Crash(api_exception(status)) /\ UNCHANGED <<moodle_course_id, mi>>
                 ELSE IF lookup_hit(found)
                 THEN /\ moodle_course_id' = found[1]
                      /\ console' = Append(console,
                              Out("course_exists", CurCourseId, found[1], <<>>, ""))
                      /\ mi' = 1
                      /\ pc' = "module"
                      /\ UNCHANGED exit_code
                 ELSE /\ pc' = "create_course"
                      /\ UNCHANGED <<moodle_course_id, mi, console, exit_code>>
    /\ UNCHANGED <<stripVars, token, entries, courses, ci, vi, module_title, polls,
                   worldVars, oslog, run>>

\* the creation call: answered, failed before the LMS acted ("error"), refused by
\* the LMS with an exception document ("exception"), or carried out by the LMS with
\* the answer lost on the way back ("lost")
EnsureCourseCreate ==
    /\ pc = "create_course"
    /\ \E status \in {"ok", "error", "exception", "lost"} :
          LET fields == create_fields(CurCourseId, CurCourse.title)
              new_id == RemoteNextId
              made == status \in {"ok", "lost"}
          IN  /\ netlog' = Append(netlog,
                      Net("create_courses", fields.idnumber, 0, <<fields.fullname>>,
                          status, IF made THEN <<new_id>> ELSE <<>>))
              /\ remote_courses' =
                      IF made
                      THEN Append(remote_courses,
                                  [id |-> new_id, idnumber |-> fields.idnumber])
                      ELSE remote_courses
              /\ IF status = "ok"
                 THEN /\ moodle_course_id' = new_id
                      /\ console' = Append(console,
                              Out("course_created", CurCourseId, new_id, <<>>, ""))
                      /\ mi' = 1
                      /\ pc' = "module"
                      /\ UNCHANGED exit_code
                 ELSE /\ Crash(IF api_raises(status) \/ status = "lost"
                               THEN api_exception(status)
                               ELSE "KeyError")   \* created[0] of an exception document
                      /\ UNCHANGED <<moodle_course_id, mi>>
    /\ UNCHANGED <<stripVars, token, entries, courses, ci, vi, module_title, polls,
                   args, cache_file, manifest, lms_forms, lms_db, gen, oslog, run>>

(***************************************************************************)
(* main: the module loop of a course.                                      *)
(***************************************************************************)
\* the title lookup in metadata.yaml (absent, holding a title, or an empty document)
\* and the head of upload_variants_to_book
ModuleTitle ==
    /\ pc = "module"
    /\ mi <= Len(CurCourse.modules.order)
    /\ \E meta \in {"absent", "titled", "null"} :
          IF meta = "null"
          THEN Crash("AttributeError") /\ UNCHANGED <<module_title, vi>>
          ELSE /\ module_title' = IF meta = "titled" THEN MetaTitle(CurModuleId)
                                  ELSE CurModuleId
               /\ vi' = 1
               /\ console' = Append(console,
                       Out("module", "", moodle_course_id, <<module_title'>>, ""))
               /\ pc' = "variant"
               /\ UNCHANGED exit_code
    /\ UNCHANGED <<stripVars, token, entries, courses, ci, mi, moodle_course_id, polls,
                   worldVars, netlog, oslog, run>>

\* main: the course's modules are done
CourseDone ==
    /\ pc = "module"
    /\ mi > Len(CurCourse.modules.order)
    /\ ci' = ci + 1
    /\ pc' = "course"
    /\ UNCHANGED <<stripVars, token, entries, courses, mi, vi, module_title,
                   moodle_course_id, polls, worldVars, logVars, exit_code, run>>

\* requests.Session objects made so far: one by each call of _create_page_resource,
\* whose first request is that of the login page
SessionsMade == Cardinality({i \in DOMAIN netlog : netlog[i].call = "login_page"})

\* "m.group(1) if m else ''": the value scraped from a page
scraped(found, value) == IF found THEN value ELSE ""

\* _create_page_resource gives up at the first page that lacks its anti-forgery
\* value
calls_made_fail_fast(fail_at, logintoken_found, sesskey_found) ==
    IF ~logintoken_found THEN 1
    ELSE IF ~sesskey_found /\ fail_at \notin {1, 2} THEN 3
    ELSE IF fail_at = 0 THEN 4 ELSE fail_at

\* the requests _create_page_resource issues: all four, or those up to the one that
\* raises; a pattern that is not found stops nothing
calls_made(fail_at, logintoken_found, sesskey_found) ==
    IF fail_at = 0 THEN 4 ELSE fail_at

\* _create_page_resource made idempotent: nothing is requested for a page whose
\* title the course was already sent
web_calls_once(course, title, fail_at) ==
    IF \E i \in DOMAIN netlog :
           /\ netlog[i].call = "page_post"
           /\ netlog[i].course = course
           /\ netlog[i].title = title
    THEN <<>>
    ELSE LET all == <<"login_page", "login_post", "add_page_form", "page_post">>
             n == calls_made(fail_at, lms_forms.logintoken, lms_forms.sesskey)
         IN  [k \in 1..n |->
                 [Net(all[k], "", course, IF all[k] = "page_post" THEN title ELSE <<>>,
                      IF k = fail_at THEN "error" ELSE "ok", <<>>)
                  EXCEPT !.session = SessionsMade + 1]]

\* _create_page_resource: its four HTTP calls, of which the fail_at-th raises
\* (none when fail_at = 0); a status that is not 2xx raises nothing, the response
\* being used without raise_for_status
web_calls(course, title, fail_at) ==
    LET all == <<"login_page", "login_post", "add_page_form", "page_post">>
        n == calls_made(fail_at, lms_forms.logintoken, lms_forms.sesskey)
        session == SessionsMade + 1
        sent == <<"", scraped(lms_forms.logintoken, LoginToken),
                  "", scraped(lms_forms.sesskey, SessKey)>>
    IN  [k \in 1..n |->
            [Net(all[k], "", course, IF all[k] = "page_post" THEN title ELSE <<>>,
                 IF k = fail_at THEN "error"
                 ELSE IF lms_forms.status = "2xx" THEN "ok" ELSE "http_error", <<>>)
             EXCEPT !.session = session, !.field = sent[k]]]

\* upload_variants_to_book: one iteration of the loop over the variants
UploadVariant ==
    /\ pc = "variant"
    /\ vi <= Len(CurVariants)
    /\ LET variant == CurVariants[vi]
           path == variant.output_file
       IN  \E exists \in BOOLEAN, fail_at \in 0..4 :
              /\ ~exists => fail_at = 0
              /\ oslog' = Append(oslog, Os("file_exists", path, exists))
              /\ IF ~exists
                 THEN /\ console' = Append(console, Out("skipping", "", 0, <<>>, path))
                      /\ vi' = next_after_skip(vi, Len(CurVariants))
                      /\ UNCHANGED <<pc, exit_code, netlog, stripVars>>
                 ELSE LET title == page_title(module_title,
                                       get(variant, "audience", UnknownAudience),
                                       get(variant, "locale", DefaultLocale))
                      IN  /\ raw_md' = VariantText
                          /\ body_md' = strip_front_matter(VariantText)
                          /\ UNCHANGED restripped
                          /\ netlog' = netlog \o web_calls(moodle_course_id, title, fail_at)
                          /\ IF fail_at = 0
                             THEN /\ console' = Append(console,
                                         Out("uploaded", "", moodle_course_id, title, path))
                                  /\ vi' = vi + 1
                                  /\ UNCHANGED <<pc, exit_code>>
                             ELSE Crash("RequestException") /\ UNCHANGED vi
    /\ UNCHANGED <<token, entries, courses, ci, mi, module_title, moodle_course_id,
                   polls, worldVars, run>>

\* upload_variants_to_book returns
ModuleDone ==
    /\ pc = "variant"
    /\ vi > Len(CurVariants)
    /\ console' = Append(console, Out("module_done", "", moodle_course_id, <<>>, ""))
    /\ mi' = mi + 1
    /\ pc' = "module"
    /\ UNCHANGED <<stripVars, token, entries, courses, ci, vi, module_title,
                   moodle_course_id, polls, worldVars, netlog, oslog, exit_code, run>>

\* main returns after the last course
AllDone ==
    /\ pc = "course"
    /\ ci > Len(courses.order)
    /\ Exit(0, Say("all_done"))
    /\ UNCHANGED <<stripVars, localVars, worldVars, netlog, oslog, run>>

\* the same command line is run again, against the same LMS and the same files
StartRun ==
    /\ pc = "exited"
    /\ run < MaxRuns
    /\ run' = run + 1
    /\ pc' = "resolve_token"
    /\ exit_code' = Running
    /\ token' = None
    /\ entries' = <<>>
    /\ courses' = EmptyDict
    /\ ci' = 0
    /\ mi' = 0
    /\ vi' = 0
    /\ module_title' = ""
    /\ moodle_course_id' = 0
    /\ polls' = 0
    /\ UNCHANGED <<stripVars, worldVars, logVars>>

Next ==
    \/ ResolveToken
    \/ WaitPoll
    \/ WaitTimeout
    \/ SetupMoodle
    \/ GetToken
    \/ VerifyToken
    \/ LoadManifest
    \/ EnsureCourseLookup
    \/ EnsureCourseCreate
    \/ ModuleTitle
    \/ CourseDone
    \/ UploadVariant
    \/ ModuleDone
    \/ AllDone

NextRepeat == Next \/ StartRun

(***************************************************************************)
(* Worlds a run starts in.                                                 *)
(***************************************************************************)
Audiences == {"developer", "executive"}
Modules == {"m1", "m2"}

\* sequences of at most n elements of S
SeqsUpTo(S, n) == UNION {[1..k -> S] : k \in 0..n}

\* entries of publish runs: of course c1 (each module, each audience) or without a
\* course_id (each module)
RunEntries ==
    {Entry("c1", m, a) : m \in Modules, a \in Audiences}
        \cup {Entry(NoField, m, "developer") : m \in Modules}

Args(tok, setup_moodle, get_token, course_id) ==
    [token |-> tok, setup_moodle |-> setup_moodle, get_token |-> get_token,
     course_id |-> course_id]

\* the LMS before the first run: without courses, or holding course c1
RemoteStates == {<<>>, <<[id |-> 2, idnumber |-> "c1"]>>}

InitWorld(argSet, cacheSet, manifestSet, formSet) ==
    /\ NoText
    /\ FreshLocals
    /\ EmptyLogs
    /\ pc = "resolve_token"
    /\ args \in argSet
    /\ cache_file \in cacheSet
    /\ manifest \in manifestSet
    /\ remote_courses \in RemoteStates
    /\ lms_forms \in formSet
    /\ lms_db = EmptyDb
    /\ gen = NoGen
    /\ exit_code = Running
    /\ run = 1

\* a run against an LMS whose web forms answer as expected
InitRun(argSet, cacheSet, manifestSet) ==
    InitWorld(argSet, cacheSet, manifestSet, {NormalForms})

Ledgers(n) == {ManifestFile("list", es) : es \in SeqsUpTo(RunEntries, n)}

\* Publish runs with a token given, over every ledger of at most MaxEntries entries,
\* and publish runs that mint their token first, over the ledgers of one entry.
Init ==
    \/ InitRun({Args("tokX", FALSE, FALSE, None)}, {NoFile}, Ledgers(MaxEntries))
    \/ InitRun({Args(None, FALSE, FALSE, None)}, {NoFile}, Ledgers(1))

Spec == Init /\ [][Next]_vars

\* Every command line and every state of the token cache, over a ledger that is
\* missing, null, empty, holds one entry (with or without a course_id) or holds an
\* entry without a course_id and then one of course c1.
TokenArgs ==
    {Args(t, s, g, c) : t \in {None, "", "tokX"}, s \in BOOLEAN, g \in BOOLEAN,
                        c \in {None, "c1", FallbackCourse}}
CacheStates == {NoFile, "", "\n", "tokC\n"}
SmallLedgers ==
    {ManifestFile("missing", <<>>), ManifestFile("null", <<>>),
     ManifestFile("list", <<>>),
     ManifestFile("list", <<Entry("c1", "m1", "developer")>>),
     ManifestFile("list", <<Entry(NoField, "m1", "developer")>>),
     ManifestFile("list", <<Entry(NoField, "m1", "developer"),
                            Entry("c1", "m1", "executive")>>)}

InitToken == InitRun(TokenArgs, CacheStates, SmallLedgers)

SpecToken == InitToken /\ [][Next]_vars

\* the same runs, of a process that keeps running until it exits: every request has
\* a timeout and every sleep ends
SpecTokenFair == InitToken /\ [][Next]_vars /\ WF_vars(Next)

\* The same command run up to MaxRuns times over a ledger of one entry.
RepeatLedgers ==
    {ManifestFile("list", <<Entry("c1", "m1", "developer")>>),
     ManifestFile("list", <<Entry(NoField, "m1", "developer")>>)}

InitRepeat ==
    \/ InitRun({Args("tokX", FALSE, FALSE, None)}, {NoFile}, RepeatLedgers)
    \/ InitRun({Args(None, FALSE, FALSE, None)}, {NoFile},
               {ManifestFile("list", <<Entry("c1", "m1", "developer")>>)})

SpecRepeat == InitRepeat /\ [][NextRepeat]_vars

\* Publish runs against an LMS whose pages may lack the anti-forgery fields, or
\* which answers the web-form requests with a server error (and then with pages
\* that carry no field), over ledgers of one or two entries.
FormStates ==
    {Forms(lt, sk, "2xx") : lt \in BOOLEAN, sk \in BOOLEAN} \cup {Forms(FALSE, FALSE, "5xx")}
FormLedgers ==
    {ManifestFile("list", <<Entry("c1", "m1", "developer")>>),
     ManifestFile("list", <<Entry("c1", "m1", "developer"), Entry("c1", "m1", "executive")>>),
     ManifestFile("list", <<Entry("c1", "m1", "developer"), Entry(NoField, "m2", "developer")>>)}

InitForms ==
    InitWorld({Args(t, FALSE, FALSE, None) : t \in {None, "tokX"}}, {NoFile},
              FormLedgers, FormStates)

SpecForms == InitForms /\ [][Next]_vars

\* The command with --setup-moodle (with and without --get-token) run up to MaxRuns
\* times against the same LMS: every run mints.
InitMint ==
    InitRun({Args(None, TRUE, g, None) : g \in BOOLEAN}, {NoFile},
            {ManifestFile("list", <<Entry("c1", "m1", "developer")>>)})

SpecMint == InitMint /\ [][NextRepeat]_vars

(***************************************************************************)
(* generate-variant.py: update_manifest, called by generation runs that    *)
(* share one ledger file.  A call reads the file, appends its entry to     *)
(* what it read, opens the file for writing (which empties it) and dumps   *)
(* the list.                                                               *)
(***************************************************************************)
Writers == 1..MaxWriters

\* generate_variant: the entry of generation run w (it carries no course_id)
GenEntry(w) ==
    Entry(NoField,
          IF w % 2 = 1 THEN "m1" ELSE "m2",
          CASE w = 1 -> "developer"
            [] w = 2 -> "executive"
            [] w = 3 -> "manager"
            [] OTHER -> "trainee")

\* update_manifest: "existing = []", replaced by "yaml.safe_load(f) or []" when the
\* file exists
read_existing(file) ==
    IF file.state = "list" THEN file.entries ELSE <<>>

\* update_manifest: the entry is put in front of the entries read
appended_front(existing, entry) == <<entry>> \o existing

\* update_manifest: existing.append(entry)
appended(existing, entry) == Append(existing, entry)

\* a generation run before its call of update_manifest
IdleWriter == [pc |-> "idle", existing |-> <<>>]

\* no call of update_manifest is between its read and the end of its write
NoneWriting == \A w \in Writers : gen.writers[w].pc \in {"idle", "done"}

\* update_manifest: the read of the ledger file, and the append
UpdRead(w) ==
    /\ gen.writers[w].pc = "idle"
    /\ gen' = [gen EXCEPT !.writers[w] =
                   [pc |-> "open",
                    existing |-> appended(read_existing(manifest), GenEntry(w))]]
    /\ UNCHANGED manifest

\* update_manifest: open(manifest_path, "w") leaves the file empty
UpdOpen(w) ==
    /\ gen.writers[w].pc = "open"
    /\ manifest' = ManifestFile("null", <<>>)
    /\ gen' = [gen EXCEPT !.writers[w].pc = "dump"]

\* update_manifest: yaml.dump(existing, f), and the file is closed
UpdDump(w) ==
    /\ gen.writers[w].pc = "dump"
    /\ manifest' = ManifestFile("list", gen.writers[w].existing)
    /\ gen' = [gen EXCEPT !.writers[w].pc = "done", !.done = Append(gen.done, w)]

\* what a generation run leaves alone
GenFrame ==
    UNCHANGED <<stripVars, pc, localVars, args, cache_file, remote_courses, lms_forms,
                lms_db, logVars, exit_code, run>>

\* generation runs made one after another: a call starts when none is under way
UpdateInTurn == \E w \in Writers : NoneWriting /\ UpdRead(w) /\ GenFrame
UpdateOpens == \E w \in Writers : UpdOpen(w) /\ GenFrame
UpdateDumps == \E w \in Writers : UpdDump(w) /\ GenFrame

\* generation runs made at the same time: a call starts whenever its run gets there
UpdateAnyTime == \E w \in Writers : UpdRead(w) /\ GenFrame

\* the ledger file before the generation runs: absent, empty, an empty list, or
\* holding entries of earlier runs
GenLedgers ==
    {ManifestFile("missing", <<>>), ManifestFile("null", <<>>),
     ManifestFile("list", <<>>),
     ManifestFile("list", <<Entry(NoField, "m0", "developer")>>),
     ManifestFile("list", <<Entry(NoField, "m0", "developer"),
                            Entry(NoField, "m0", "executive")>>)}

InitLedger ==
    /\ NoText
    /\ NoRun
    /\ pc = "generate"
    /\ manifest \in GenLedgers
    /\ gen = [writers |-> [w \in Writers |-> IdleWriter],
              start |-> read_existing(manifest),
              done |-> <<>>]

NextLedgerSeq == UpdateInTurn \/ UpdateOpens \/ UpdateDumps
NextLedgerPar == UpdateAnyTime \/ UpdateOpens \/ UpdateDumps

SpecLedgerSeq == InitLedger /\ [][NextLedgerSeq]_vars
SpecLedgerPar == InitLedger /\ [][NextLedgerPar]_vars

(***************************************************************************)
(* strip_front_matter on its own: a text is read, stripped, and the result *)
(* stripped again.                                                         *)
(***************************************************************************)
InitStrip ==
    /\ raw_md \in Texts \cup {ExampleDoc}
    /\ body_md = <<>>
    /\ restripped = <<>>
    /\ pc = "strip_read"
    /\ manifest = ManifestFile("missing", <<>>)
    /\ gen = NoGen
    /\ NoRun

StripOnce ==
    /\ pc = "strip_read"
    /\ body_md' = strip_front_matter(raw_md)
    /\ pc' = "strip_once"
    /\ UNCHANGED <<raw_md, restripped, runVars>>

StripAgain ==
    /\ pc = "strip_once"
    /\ restripped' = strip_front_matter(body_md)
    /\ pc' = "strip_twice"
    /\ UNCHANGED <<raw_md, body_md, runVars>>

NextStrip == StripOnce \/ StripAgain

SpecStrip == InitStrip /\ [][NextStrip]_vars

\* the text holds a front-matter block: it begins with the fence and a closing
\* fence follows at offset 3 or later
HasFrontMatter(text) ==
    /\ startswith(text, Fence)
    /\ \E i \in 3..(Len(text) - 4) : SubSeq(text, i + 1, i + 4) = ClosingFence

\* C4, as claimed: stripping a stripped text changes nothing, for every text.
StripIdempotent == pc = "strip_twice" => restripped = body_md

\* C4, amended: stripping a stripped text changes nothing whenever the stripped
\* text does not itself hold a front-matter block (a leading fence with a closing
\* fence after it).
StripIdempotentOnPlainBody ==
    (pc = "strip_twice" /\ ~HasFrontMatter(body_md)) => restripped = body_md

\* C4 witness: a front-matter block was stripped, the body left begins with a fence
\* that nothing closes, and the second application has run.
StripTwiceWitness ==
    /\ pc = "strip_twice"
    /\ HasFrontMatter(raw_md)
    /\ startswith(body_md, Fence)
    /\ ~HasFrontMatter(body_md)

\* offsets after 0 at which a closing fence stands
ClosingOffsets(text) ==
    {i \in 1..(Len(text) - 4) : SubSeq(text, i + 1, i + 4) = ClosingFence}

\* the text from its first character that is not white space
LeftTrimmed(text) ==
    LET black == {i \in 1..Len(text) : text[i] \notin Whitespace}
    IN  IF black = {} THEN <<>>
        ELSE SubSeq(text, CHOOSE i \in black : \A j \in black : i <= j, Len(text))

\* what the specification asks of strip_front_matter
StripSpecified(text) ==
    IF Len(text) >= 3 /\ SubSeq(text, 1, 3) = Fence /\ ClosingOffsets(text) # {}
    THEN LET first == CHOOSE i \in ClosingOffsets(text) :
                          \A j \in ClosingOffsets(text) : i <= j
         IN  LeftTrimmed(SubSeq(text, first + 5, Len(text)))
    ELSE text

\* C5: the result is the left-trimmed text after the first closing fence when the
\* text begins with a fence and has a closing fence, the text itself otherwise;
\* the example document yields "Body".
StripFrontMatterResult ==
    pc \in {"strip_once", "strip_twice"} =>
        /\ body_md = StripSpecified(raw_md)
        /\ raw_md = ExampleDoc => body_md = ExampleBody

\* C5 witness: the example document has been stripped to "Body".
StripExampleWitness ==
    pc = "strip_once" /\ raw_md = ExampleDoc /\ body_md = ExampleBody

(***************************************************************************)
(* group_by_course on its own, over every sequence of at most              *)
(* MaxGroupEntries entries of two courses (or none) and two modules, or    *)
(* without a module_id.                                                    *)
(***************************************************************************)
GroupEntries ==
    {Entry(c, m, a) : c \in {NoField, "c1", "c2"}, m \in Modules, a \in Audiences}
        \cup {[Entry(NoField, "m1", "developer") EXCEPT !.module_id = NoField]}

InitGroup ==
    /\ NoText
    /\ NoRun
    /\ gen = NoGen
    /\ manifest \in {ManifestFile("list", es) : es \in SeqsUpTo(GroupEntries, MaxGroupEntries)}
    /\ pc = "group_read"

GroupLedger ==
    /\ pc = "group_read"
    /\ entries' = load_manifest(manifest)
    /\ courses' = group_by_course(load_manifest(manifest))
    /\ pc' = "grouped"
    /\ UNCHANGED <<stripVars, token, ci, mi, vi, module_title, moodle_course_id, polls,
                   worldVars, logVars, exit_code, run>>

NextGroup == GroupLedger

SpecGroup == InitGroup /\ [][NextGroup]_vars

\* the course and module an entry falls under
CourseKey(e) == IF e.course_id = NoField THEN FallbackCourse ELSE e.course_id
ModuleKey(e) == get(e, "module_id", get(e, "module_path", UnknownModule))

\* order lists each value of keys once, by the position of its first occurrence
FirstSeenOrder(order, keys) ==
    /\ {order[i] : i \in DOMAIN order} = {keys[i] : i \in DOMAIN keys}
    /\ \A i, j \in DOMAIN order :
          i < j =>
            (CHOOSE a \in DOMAIN keys : keys[a] = order[i] /\
                 \A b \in DOMAIN keys : keys[b] = order[i] => a <= b)
            < (CHOOSE a \in DOMAIN keys : keys[a] = order[j] /\
                 \A b \in DOMAIN keys : keys[b] = order[j] => a <= b)

\* the module keys of the entries of course c, in ledger order
ModuleKeysOf(es, c) ==
    LET mine == SelectSeq(es, LAMBDA e : CourseKey(e) = c)
    IN  [i \in 1..Len(mine) |-> ModuleKey(mine[i])]

\* C6: courses come in order of the first entry of each course, modules within a
\* course in order of the first entry of each module; [A/1, B/1, A/2] gives
\* courses [A, B] and modules [1, 2] within A (A, B are c1, c2; 1, 2 are m1, m2).
GroupStable ==
    pc = "grouped" =>
        /\ FirstSeenOrder(courses.order, [i \in DOMAIN entries |-> CourseKey(entries[i])])
        /\ \A c \in DOMAIN courses.val :
              FirstSeenOrder(courses.val[c].modules.order, ModuleKeysOf(entries, c))
        /\ (/\ Len(entries) = 3
            /\ [i \in 1..3 |-> <<entries[i].course_id, entries[i].module_id>>]
                  = << <<"c1", "m1">>, <<"c2", "m1">>, <<"c1", "m2">> >>)
              => /\ courses.order = <<"c1", "c2">>
                 /\ courses.val["c1"].modules.order = <<"m1", "m2">>

\* C6 witness: the entries [c1/m1, c2/m1, c1/m2] have been grouped.
GroupStableWitness ==
    /\ pc = "grouped"
    /\ Len(entries) = 3
    /\ [i \in 1..3 |-> <<entries[i].course_id, entries[i].module_id>>]
          = << <<"c1", "m1">>, <<"c2", "m1">>, <<"c1", "m2">> >>
    /\ courses.order = <<"c1", "c2">>

(***************************************************************************)
(* Publish runs: what the logs of a run show.                              *)
(***************************************************************************)
IsLookup(e) == e.call = "get_courses_by_field"
IsCreate(e) == e.call = "create_courses"
IsPagePost(e) == e.call = "page_post"

\* the lines ensure_course prints when it returns
Returned(r, idnumber, id) ==
    \E k \in DOMAIN console :
        /\ console[k].msg \in {"course_exists", "course_created"}
        /\ console[k].run = r
        /\ console[k].idnumber = idnumber
        /\ console[k].course = id

\* C1: after a lookup that answers at least one course, the run issues no creation
\* call for that identifier, and ensure_course returns the id of the remote course
\* that carries the identifier.
CourseHitNoCreate ==
    \A i \in DOMAIN netlog :
        (IsLookup(netlog[i]) /\ netlog[i].status = "ok" /\ netlog[i].ids # <<>>) =>
            /\ \A j \in DOMAIN netlog :
                  ~(/\ IsCreate(netlog[j])
                    /\ netlog[j].run = netlog[i].run
                    /\ netlog[j].idnumber = netlog[i].idnumber)
            /\ \E c \in DOMAIN remote_courses :
                  /\ remote_courses[c].idnumber = netlog[i].idnumber
                  /\ remote_courses[c].id = netlog[i].ids[1]
            /\ Returned(netlog[i].run, netlog[i].idnumber, netlog[i].ids[1])
            /\ (i = Len(netlog) /\ netlog[i].run = run) =>
                  moodle_course_id = netlog[i].ids[1]

\* C1 witness: the lookup of c1 found the course with id 2 and ensure_course
\* returned.
CourseHitWitness ==
    /\ pc = "module"
    /\ netlog # <<>>
    /\ IsLookup(netlog[Len(netlog)])
    /\ netlog[Len(netlog)].ids = <<2>>
    /\ moodle_course_id = 2

\* C2: after a lookup that answers no course, the next call is the one creation
\* call of that ensure_course, it carries the course identifier as idnumber, and
\* when it is answered ensure_course returns the id it echoes.
CourseMissCreatesOnce ==
    \A i \in DOMAIN netlog :
        (IsLookup(netlog[i]) /\ netlog[i].status = "ok" /\ netlog[i].ids = <<>>) =>
            /\ (i = Len(netlog) /\ netlog[i].run = run) => pc = "create_course"
            /\ i < Len(netlog) =>
                  /\ IsCreate(netlog[i + 1])
                  /\ netlog[i + 1].run = netlog[i].run
                  /\ netlog[i + 1].idnumber = netlog[i].idnumber
                  /\ Cardinality({j \in DOMAIN netlog :
                          /\ IsCreate(netlog[j])
                          /\ netlog[j].run = netlog[i].run
                          /\ netlog[j].idnumber = netlog[i].idnumber}) = 1
                  /\ netlog[i + 1].status = "ok" =>
                        /\ Returned(netlog[i].run, netlog[i].idnumber,
                                    netlog[i + 1].ids[1])
                        /\ (i + 1 = Len(netlog) /\ netlog[i].run = run) =>
                              moodle_course_id = netlog[i + 1].ids[1]
            /\ \A j \in DOMAIN netlog :
                  (IsCreate(netlog[j]) /\ j # i + 1 /\ netlog[j].run = netlog[i].run) =>
                      netlog[j].idnumber # netlog[i].idnumber

\* C2 witness: a creation call for c1 was answered and ensure_course returned the
\* echoed id.
CourseMissWitness ==
    /\ pc = "module"
    /\ netlog # <<>>
    /\ IsCreate(netlog[Len(netlog)])
    /\ netlog[Len(netlog)].status = "ok"
    /\ netlog[Len(netlog)].idnumber = "c1"
    /\ moodle_course_id = netlog[Len(netlog)].ids[1]

\* C3: over runs made one after another the LMS never holds two courses with one
\* idnumber; once a run's creation call has made a course, no later run issues a
\* creation call for that idnumber, and every return of ensure_course for an
\* idnumber gives the same id.
RepeatSafe ==
    /\ \A a, b \in DOMAIN remote_courses :
          a # b => remote_courses[a].idnumber # remote_courses[b].idnumber
    /\ \A j, k \in DOMAIN netlog :
          (/\ IsCreate(netlog[j])
           /\ netlog[j].status \in {"ok", "lost"}
           /\ netlog[k].run > netlog[j].run
           /\ netlog[k].idnumber = netlog[j].idnumber) =>
              /\ ~IsCreate(netlog[k])
              /\ (IsLookup(netlog[k]) /\ netlog[k].status = "ok") =>
                    netlog[k].ids = netlog[j].ids
    /\ \A a, b \in DOMAIN console :
          (/\ console[a].msg \in {"course_exists", "course_created"}
           /\ console[b].msg \in {"course_exists", "course_created"}
           /\ console[a].idnumber = console[b].idnumber) =>
              console[a].course = console[b].course

\* C3 witness: the first run created the course, the second found it.
RepeatWitness ==
    /\ run = 2
    /\ \E a, b \in DOMAIN console :
          /\ console[a].msg = "course_created" /\ console[a].run = 1
          /\ console[b].msg = "course_exists" /\ console[b].run = 2
          /\ console[a].idnumber = console[b].idnumber
          /\ console[a].course = console[b].course

(***************************************************************************)
(* Publish runs: the upload of the entries.                                *)
(***************************************************************************)
\* the entries in the order main walks them: course by course, module by module
FlatModules(course) ==
    Flatten([k \in 1..Len(course.modules.order) |->
                course.modules.val[course.modules.order[k]]])
FlatOf(grouped) ==
    Flatten([k \in 1..Len(grouped.order) |-> FlatModules(grouped.val[grouped.order[k]])])

\* this run's tests for a variant file, its page submissions, and the lines it
\* printed about variants
FileChecks == SelectSeq(oslog, LAMBDA o : o.op = "file_exists" /\ o.run = run)
PagePosts == SelectSeq(netlog, LAMBDA e : IsPagePost(e) /\ e.run = run)
Skips == SelectSeq(console, LAMBDA l : l.msg = "skipping" /\ l.run = run)
Uploads == SelectSeq(console, LAMBDA l : l.msg = "uploaded" /\ l.run = run)

\* positions (in walking order) of the entries whose file was found / not found
FoundIdx ==
    SelectSeq([k \in 1..Len(FileChecks) |-> k], LAMBDA k : FileChecks[k].ok)
MissingIdx ==
    SelectSeq([k \in 1..Len(FileChecks) |-> k], LAMBDA k : ~FileChecks[k].ok)

\* the last line printed is that of a failure: an unhandled exception, a failed
\* token validation, a missing ledger or a filter that matches nothing
Failures ==
    {"TimeoutError", "RuntimeError", "RequestError", "AttributeError", "KeyError",
     "RequestException", "validation_failed", "no_manifest", "no_variants"}
Failed == console # <<>> /\ console[Len(console)].msg \in Failures

\* C8: an entry whose file is missing is skipped (a line is printed, nothing is
\* submitted), the walk goes on with the next entry, and a run in which nothing
\* else fails ends with exit code 0 having tested every entry and submitted one
\* page for each entry whose file exists.
MissingFileSkipped ==
    pc \in {"course", "create_course", "module", "variant", "exited"} =>
        LET flat == FlatOf(courses)
        IN  /\ Len(FileChecks) <= Len(flat)
            /\ \A k \in DOMAIN FileChecks : FileChecks[k].path = flat[k].output_file
            /\ Len(Skips) = Len(MissingIdx)
            /\ \A n \in DOMAIN Skips : Skips[n].path = flat[MissingIdx[n]].output_file
            /\ Len(PagePosts) <= Len(FoundIdx)
            /\ (pc = "exited" /\ ~Failed /\ entries # <<>>) =>
                  /\ exit_code = 0
                  /\ Len(FileChecks) = Len(entries)
                  /\ Len(PagePosts) = Len(FoundIdx)
                  /\ Len(Uploads) = Len(FoundIdx)
                  /\ \A n \in DOMAIN Uploads :
                        Uploads[n].path = flat[FoundIdx[n]].output_file

\* C8 witness: a run ended with exit code 0 in which a file of a module was
\* missing and a later entry of the same module was uploaded.
MissingFileWitness ==
    /\ pc = "exited"
    /\ exit_code = 0
    /\ Len(FileChecks) = 2
    /\ ~FileChecks[1].ok
    /\ FileChecks[2].ok
    /\ Len(courses.order) = 1
    /\ Len(courses.val[courses.order[1]].modules.order) = 1
    /\ Len(PagePosts) = 1
    /\ Len(Uploads) = 1

\* part occurs in title
Contains(title, part) ==
    \E k \in 0..(Len(title) - Len(part)) : SubSeq(title, k + 1, k + Len(part)) = part

\* index in netlog of this run's n-th page submission
PagePostIdx ==
    SelectSeq([k \in 1..Len(netlog) |-> k],
              LAMBDA k : IsPagePost(netlog[k]) /\ netlog[k].run = run)

\* the lookup that precedes call j most closely in the same run (0 if none)
LastLookupBefore(j) ==
    LET before == {i \in 1..(j - 1) : IsLookup(netlog[i]) /\ netlog[i].run = netlog[j].run}
    IN  IF before = {} THEN 0 ELSE CHOOSE i \in before : \A h \in before : h <= i

\* C10: every page submission comes after the answered lookup of its entry's
\* course (and after the answered creation call when the lookup found nothing) and
\* goes to the course that lookup or creation named; its title contains
\* "<audience> / <locale>" of its entry; a run that ends without failure has
\* submitted exactly one page per published entry whose file exists.  For the
\* ledger of the one entry m1/c1/developer/en-US with c1 absent: one creation call
\* with idnumber c1, then one page submission.
PublishOrder ==
    pc \in {"course", "create_course", "module", "variant", "exited"} =>
        LET flat == FlatOf(courses)
        IN  /\ Len(PagePostIdx) <= Len(FoundIdx)
            /\ \A n \in DOMAIN PagePostIdx :
                  LET j == PagePostIdx[n]
                      i == LastLookupBefore(j)
                      e == flat[FoundIdx[n]]
                  IN  /\ i > 0
                      /\ netlog[i].status = "ok"
                      /\ netlog[i].idnumber = CourseKey(e)
                      /\ IF netlog[i].ids # <<>>
                         THEN netlog[j].course = netlog[i].ids[1]
                         ELSE /\ IsCreate(netlog[i + 1])
                              /\ netlog[i + 1].status = "ok"
                              /\ netlog[i + 1].idnumber = CourseKey(e)
                              /\ i + 1 < j
                              /\ netlog[j].course = netlog[i + 1].ids[1]
                      /\ Contains(netlog[j].title, <<e.audience, " / ", e.locale>>)
            /\ (pc = "exited" /\ ~Failed /\ entries # <<>>) =>
                  /\ Len(FileChecks) = Len(entries)
                  /\ Len(PagePostIdx) = Len(FoundIdx)
            /\ (/\ pc = "exited" /\ ~Failed
                /\ entries = <<Entry("c1", "m1", "developer")>>
                /\ FoundIdx = <<1>>
                /\ \E i \in DOMAIN netlog : IsLookup(netlog[i]) /\ netlog[i].ids = <<>>) =>
                  LET calls == SelectSeq(netlog, LAMBDA c : IsCreate(c) \/ IsPagePost(c))
                  IN  /\ Len(calls) = 2
                      /\ IsCreate(calls[1]) /\ calls[1].idnumber = "c1"
                      /\ IsPagePost(calls[2])
                      /\ Contains(calls[2].title, <<"developer", " / ", "en-US">>)

\* C10 witness: the run over the one-entry ledger against an LMS without c1 has
\* ended after one creation call and one page submission.
PublishScenarioWitness ==
    /\ pc = "exited"
    /\ exit_code = 0
    /\ entries = <<Entry("c1", "m1", "developer")>>
    /\ Len(SelectSeq(netlog, IsCreate)) = 1
    /\ Len(PagePosts) = 1
    /\ Contains(PagePosts[1].title, <<"developer", " / ", "en-US">>)

(***************************************************************************)
(* Publish runs: the token and the empty ledger.                           *)
(***************************************************************************)
Calls(kind) == {i \in DOMAIN netlog : netlog[i].call = kind /\ netlog[i].run = run}
Ops(kind) == {i \in DOMAIN oslog : oslog[i].op = kind /\ oslog[i].run = run}

\* the ledger file exists and holds no entry
LedgerEmpty == manifest.state # "missing" /\ load_manifest(manifest) = <<>>

\* C7, as claimed: over an empty ledger the run ends with exit code 0 and its only
\* network call is the token validation, whatever the token source.
EmptyLedgerOnlyValidates ==
    (pc = "exited" /\ LedgerEmpty) =>
        /\ exit_code = 0
        /\ \A i \in DOMAIN netlog : netlog[i].call = "site_info"

\* C7, amended: over an empty ledger every network call is a readiness poll (made
\* only when a token is minted: none given or the setup flag set) or the one
\* token validation; the run ends with exit code 0 once the validation has
\* succeeded, and with exit code 1 only when the poll, the mint or the validation
\* failed.
EmptyLedgerQuiet ==
    LedgerEmpty =>
        /\ \A i \in DOMAIN netlog : netlog[i].call \in {"poll", "site_info"}
        /\ Cardinality(Calls("site_info")) <= 1
        /\ Calls("poll") # {} => (args.setup_moodle \/ ~truthy(args.token))
        /\ (truthy(args.token) /\ ~args.setup_moodle) => Calls("poll") = {}
        /\ pc = "exited" =>
              /\ (\E i \in Calls("site_info") : netlog[i].status = "ok") =>
                    exit_code = 0
              /\ exit_code = 1 =>
                    console[Len(console)].msg
                        \in {"TimeoutError", "RuntimeError", "validation_failed"}
              /\ exit_code \in {0, 1}

\* C7 witness: over an empty ledger, with a course filter given, the run validated
\* its token and ended with exit code 0.
EmptyLedgerWitness ==
    /\ pc = "exited"
    /\ LedgerEmpty
    /\ truthy(args.course_id)
    /\ exit_code = 0
    /\ Cardinality(Calls("site_info")) = 1
    /\ Len(netlog) = 1

BootstrapFailed ==
    \/ /\ Cardinality(Calls("poll")) >= MaxPolls
       /\ \A i \in Calls("poll") : netlog[i].status # "ok"
    \/ \E i \in Ops("docker_exec") : ~oslog[i].ok
ValidationFailed == \E i \in Calls("site_info") : netlog[i].status # "ok"
Validated == \E i \in Calls("site_info") : netlog[i].status = "ok"
LedgerMissing == Validated /\ manifest.state = "missing"
FilterMatchesNothing ==
    /\ Validated
    /\ manifest.state # "missing"
    /\ load_manifest(manifest) # <<>>
    /\ truthy(args.course_id)
    /\ filter_entries(load_manifest(manifest), args.course_id) = <<>>
RestCallFailed ==
    \E i \in Calls("get_courses_by_field") \cup Calls("create_courses") :
        netlog[i].status # "ok"
WebCallRaised ==
    \E i \in DOMAIN netlog :
        /\ netlog[i].run = run
        /\ netlog[i].call \in {"login_page", "login_post", "add_page_form", "page_post"}
        /\ netlog[i].status = "error"
MetadataEmpty == console # <<>> /\ console[Len(console)].msg = "AttributeError"

\* C11, as claimed: the run ends with exit code 1 exactly when the ledger file is
\* missing, the course filter matches nothing, the token validation fails or the
\* bootstrap fails; in every other outcome it ends with exit code 0.
ExitOneOnlyBeforePublishing ==
    pc = "exited" =>
        /\ exit_code \in {0, 1}
        /\ exit_code = 1 <=>
              (LedgerMissing \/ FilterMatchesNothing \/ ValidationFailed \/ BootstrapFailed)

\* C11, amended: the run ends with exit code 1 exactly when the bootstrap fails, the
\* token validation fails, the ledger file is missing, the course filter matches
\* nothing, a REST call of ensure_course fails, a call of a page creation raises,
\* or a module's metadata document is empty; in every other outcome (the token
\* printed, the ledger empty, every course walked) it ends with exit code 0.
ExitCodes ==
    pc = "exited" =>
        /\ exit_code \in {0, 1}
        /\ exit_code = 1 <=>
              \/ BootstrapFailed
              \/ ValidationFailed
              \/ LedgerMissing
              \/ FilterMatchesNothing
              \/ RestCallFailed
              \/ WebCallRaised
              \/ MetadataEmpty
        /\ exit_code = 0 <=>
              console[Len(console)].msg \in {"token_printed", "manifest_empty", "all_done"}

\* C11 witness: a run that validated its token and loaded a ledger ended with exit
\* code 1 because the course lookup failed.
ExitOneWhilePublishingWitness ==
    /\ pc = "exited"
    /\ exit_code = 1
    /\ Validated
    /\ entries # <<>>
    /\ RestCallFailed
    /\ ~BootstrapFailed

(***************************************************************************)
(* Publish runs: the order of the page submissions.                        *)
(***************************************************************************)
\* the elements of a sequence
Range(s) == {s[i] : i \in DOMAIN s}

\* s can be had from t by leaving elements out
RECURSIVE IsSubseq(_, _)
IsSubseq(s, t) ==
    IF s = <<>> THEN TRUE
    ELSE IF t = <<>> THEN FALSE
    ELSE IF Head(s) = Head(t) THEN IsSubseq(Tail(s), Tail(t))
    ELSE IsSubseq(s, Tail(t))

\* the entries of module m of course c, in the order of es
OfModule(es, c, m) == SelectSeq(es, LAMBDA e : CourseKey(e) = c /\ ModuleKey(e) = m)

\* the entry each page submission of this run is for, in submission order
PostedEntries ==
    LET flat == FlatOf(courses)
    IN  [n \in DOMAIN PagePosts |-> flat[FoundIdx[n]]]

\* C12: the n-th page submission of a run carries the audience and locale of the
\* n-th walked entry whose file exists, and within every module the walk, and so
\* the submissions, follow the order of the ledger: the entries submitted for a
\* module are a subsequence of the module's entries in ledger order, and all of
\* them when every file exists and the run ends without failure.
PagesInLedgerOrder ==
    (pc \in {"course", "create_course", "module", "variant", "exited"} /\ entries # <<>>) =>
        LET flat == FlatOf(courses)
            ledger == load_manifest(manifest)
        IN  /\ Len(PagePosts) <= Len(FoundIdx)
            /\ \A n \in DOMAIN PagePosts :
                  Contains(PagePosts[n].title,
                           <<flat[FoundIdx[n]].audience, " / ", flat[FoundIdx[n]].locale>>)
            /\ \A n \in DOMAIN Uploads :
                  Uploads[n].path = flat[FoundIdx[n]].output_file
            /\ \A e \in Range(ledger) :
                  LET c == CourseKey(e)
                      m == ModuleKey(e)
                  IN  /\ OfModule(flat, c, m) = OfModule(ledger, c, m)
                      /\ IsSubseq(OfModule(PostedEntries, c, m), OfModule(ledger, c, m))
                      /\ (/\ pc = "exited" /\ ~Failed
                          /\ \A k \in DOMAIN FileChecks : FileChecks[k].ok) =>
                            OfModule(PostedEntries, c, m) = OfModule(ledger, c, m)

\* C12 witness: the ledger names the executive variant of a module before its
\* developer variant, and the run submitted the two pages in that order.
LedgerOrderWitness ==
    /\ pc = "exited"
    /\ exit_code = 0
    /\ manifest.entries = <<Entry("c1", "m1", "executive"), Entry("c1", "m1", "developer")>>
    /\ Len(PagePosts) = 2
    /\ Contains(PagePosts[1].title, <<"executive">>)
    /\ Contains(PagePosts[2].title, <<"developer">>)

(***************************************************************************)
(* Publish runs: the web-form path.                                        *)
(***************************************************************************)
WebCalls == {"login_page", "login_post", "add_page_form", "page_post"}

\* the web-form calls of run r, in the order issued
WebLog(r) == SelectSeq(netlog, LAMBDA e : e.call \in WebCalls /\ e.run = r)

\* C13, as claimed: all page-creation calls of a run are carried by one session,
\* and the run fetches the login page and posts the credentials once, before its
\* first page submission.
OneSessionOneLogin ==
    \A r \in 1..run :
        LET web == WebLog(r)
        IN  /\ \A a, b \in DOMAIN web : web[a].session = web[b].session
            /\ Len(SelectSeq(web, LAMBDA e : e.call = "login_page")) <= 1
            /\ Len(SelectSeq(web, LAMBDA e : e.call = "login_post")) <= 1
            /\ \A b \in DOMAIN web :
                  web[b].call = "page_post" =>
                      \E a \in 1..(b - 1) : web[a].call = "login_post"

\* the calls carried by session s, in the order issued
SessionLog(s) == SelectSeq(netlog, LAMBDA e : e.session = s)

\* no call of session s raised
Unraised(s) == \A k \in DOMAIN SessionLog(s) : SessionLog(s)[k].status # "error"

\* C14: the login post carries the login token of the login page, and the page
\* submission the session key of the form page, or the empty string when the page
\* lacks the field; a page creation in which no request raises issues all four
\* requests whether or not the fields were found and its entry is reported as
\* uploaded, and a run that ends without failure has submitted a page for every
\* entry whose file exists.
MissingFieldSentEmpty ==
    /\ \A i \in DOMAIN netlog :
          /\ netlog[i].call = "login_post" =>
                netlog[i].field = IF lms_forms.logintoken THEN LoginToken ELSE ""
          /\ netlog[i].call = "page_post" =>
                netlog[i].field = IF lms_forms.sesskey THEN SessKey ELSE ""
    /\ \A s \in 1..SessionsMade :
          Unraised(s) =>
              /\ [k \in 1..Len(SessionLog(s)) |-> SessionLog(s)[k].call]
                    = <<"login_page", "login_post", "add_page_form", "page_post">>
              /\ \E u \in DOMAIN console :
                    /\ console[u].msg = "uploaded"
                    /\ console[u].run = SessionLog(s)[4].run
                    /\ console[u].title = SessionLog(s)[4].title
    /\ Cardinality({u \in DOMAIN console : console[u].msg = "uploaded"})
          = Cardinality({s \in 1..SessionsMade : Unraised(s)})
    /\ (pc = "exited" /\ ~Failed /\ entries # <<>>) =>
          /\ exit_code = 0
          /\ Len(FileChecks) = Len(entries)
          /\ Len(PagePosts) = Len(FoundIdx)

\* C14 witness: neither page carried its field; the run sent both posts of both
\* entries with an empty field, reported both uploaded and ended with exit code 0.
EmptyFieldWitness ==
    /\ ~lms_forms.logintoken
    /\ ~lms_forms.sesskey
    /\ lms_forms.status = "2xx"
    /\ pc = "exited"
    /\ exit_code = 0
    /\ Len(PagePosts) = 2
    /\ \A n \in DOMAIN PagePosts : PagePosts[n].field = ""
    /\ \A k \in Calls("login_post") : netlog[k].field = ""
    /\ Cardinality(Calls("login_post")) = 2
    /\ Len(Uploads) = 2

\* the calls of the REST path
RestCalls == {"site_info", "get_courses_by_field", "create_courses"}

\* C15, as claimed: a call of the REST path or of the web-form path that fails in
\* transport (it raises, or is answered with a status that is not 2xx) is the last
\* network call of its run, and a page is reported as uploaded only when every
\* call of its creation was answered with success.
TransportErrorFatal ==
    /\ \A i \in DOMAIN netlog :
          (/\ netlog[i].call \in RestCalls \cup WebCalls
           /\ netlog[i].status \in {"error", "http_error"}) =>
              \A j \in DOMAIN netlog : j > i => netlog[j].run # netlog[i].run
    /\ Cardinality({u \in DOMAIN console : console[u].msg = "uploaded"})
          = Cardinality({s \in 1..SessionsMade :
                            \A k \in DOMAIN SessionLog(s) : SessionLog(s)[k].status = "ok"})

(***************************************************************************)
(* Publish runs: domain errors of the REST path.                           *)
(***************************************************************************)
\* C16: a REST call answered with an exception document raises (RuntimeError, or
\* the failure message of the token validation) and is the last network call of
\* its run: it is not issued again, a refused lookup is followed by no creation
\* call and no page submission, a refused creation by no page submission for that
\* course or a later one, and the LMS holds no course made by a refused creation.
DomainErrorAborts ==
    \A i \in DOMAIN netlog :
        netlog[i].status = "exception" =>
            /\ netlog[i].call \in RestCalls
            /\ netlog[i].ids = <<>>
            /\ \A j \in DOMAIN netlog : j > i => netlog[j].run # netlog[i].run
            /\ netlog[i].run = run =>
                  /\ pc = "exited"
                  /\ exit_code = 1
                  /\ console[Len(console)].msg =
                        IF netlog[i].call = "site_info"
                        THEN "validation_failed" ELSE "RuntimeError"
            /\ IsCreate(netlog[i]) =>
                  \A c \in DOMAIN remote_courses :
                      remote_courses[c].idnumber = netlog[i].idnumber =>
                          \E j \in DOMAIN netlog :
                              /\ IsCreate(netlog[j])
                              /\ netlog[j].status \in {"ok", "lost"}
                              /\ netlog[j].idnumber = netlog[i].idnumber

\* C16 witness: the first course's page was submitted, the creation of the second
\* course was refused, and the run ended without testing the second entry's file.
DomainErrorWitness ==
    /\ pc = "exited"
    /\ exit_code = 1
    /\ Len(entries) = 2
    /\ Len(PagePosts) = 1
    /\ Len(FileChecks) = 1
    /\ IsCreate(netlog[Len(netlog)])
    /\ netlog[Len(netlog)].status = "exception"

(***************************************************************************)
(* Publish runs: what a run writes locally.                                *)
(***************************************************************************)
\* C17: no step of a publish run changes the ledger file, and the only file a step
\* writes is the token cache, written by the step that minted the token, with that
\* token.
LedgerNeverWritten ==
    [][/\ manifest' = manifest
       /\ cache_file' # cache_file =>
             /\ pc = "setup_moodle"
             /\ cache_file' = token'
             /\ Len(oslog') = Len(oslog) + 2
             /\ oslog'[Len(oslog')].op = "cache_write"
       /\ \A k \in DOMAIN oslog' :
             k > Len(oslog) =>
                 oslog'[k].op \in {"cache_read", "file_exists", "docker_exec", "cache_write"}
       /\ (Len(oslog') > Len(oslog) /\ oslog'[Len(oslog')].op = "cache_write") =>
             cache_file' = token']_vars

\* C17 witness: a run over a filtered ledger minted a token, wrote the cache,
\* published its entry and ended; the ledger file holds what it held.
LedgerKeptWitness ==
    /\ pc = "exited"
    /\ exit_code = 0
    /\ truthy(args.course_id)
    /\ Ops("cache_write") # {}
    /\ Len(PagePosts) = 1
    /\ manifest.state = "list"
    /\ manifest.entries = entries
    /\ cache_file = token

(***************************************************************************)
(* Runs made one after another: pages.                                     *)
(***************************************************************************)
\* the runs that have ended, and whether run r walked every course to the end
EndedRuns == IF pc = "exited" THEN 1..run ELSE 1..(run - 1)
Completed(r) == \E k \in DOMAIN console : console[k].run = r /\ console[k].msg = "all_done"

\* the page submissions of run r, and its tests for a variant file
PagePostsOf(r) == SelectSeq(netlog, LAMBDA e : IsPagePost(e) /\ e.run = r)
FileChecksOf(r) == SelectSeq(oslog, LAMBDA o : o.op = "file_exists" /\ o.run = r)

\* C18: every network call is a readiness poll, a token validation, a course
\* lookup, a course creation or one of the four requests of a page creation (no
\* call deletes or updates, none looks a page up); every file found is followed by
\* a page creation whatever earlier runs submitted; and when each of N runs over
\* the ledger completed with every file present, each entry has N page
\* submissions while each course has at most one creation call in total.
PagesAppendOnly ==
    /\ \A i \in DOMAIN netlog :
          netlog[i].call \in {"poll"} \cup RestCalls \cup WebCalls
    /\ \A r \in EndedRuns :
          Completed(r) =>
              Len(PagePostsOf(r)) =
                  Len(SelectSeq(FileChecksOf(r), LAMBDA o : o.ok))
    /\ (/\ EndedRuns # {}
        /\ \A r \in EndedRuns :
              Completed(r) /\ \A k \in DOMAIN FileChecksOf(r) : FileChecksOf(r)[k].ok) =>
          /\ \A e \in Range(load_manifest(manifest)) :
                Cardinality({i \in DOMAIN netlog :
                    /\ IsPagePost(netlog[i])
                    /\ Contains(netlog[i].title, <<e.audience, " / ", e.locale>>)})
                  = Cardinality(EndedRuns) + (IF pc = "exited" THEN 0 ELSE Len(PagePosts))
          /\ \A c \in {CourseKey(e) : e \in Range(load_manifest(manifest))} :
                Cardinality({i \in DOMAIN netlog :
                    IsCreate(netlog[i]) /\ netlog[i].idnumber = c}) <= 1

\* C18 witness: two runs over the same ledger have completed; the entry has two
\* page submissions with one title, the course one creation call.
TwoRunsTwoPagesWitness ==
    /\ run = 2
    /\ pc = "exited"
    /\ Completed(1)
    /\ Completed(2)
    /\ Len(PagePostsOf(1)) = 1
    /\ Len(PagePostsOf(2)) = 1
    /\ PagePostsOf(1)[1].title = PagePostsOf(2)[1].title
    /\ Cardinality({i \in DOMAIN netlog : IsCreate(netlog[i])}) = 1

(***************************************************************************)
(* Runs made one after another: the mint.                                  *)
(***************************************************************************)
\* the mints that succeeded
Mints == {i \in DOMAIN oslog : oslog[i].op = "docker_exec" /\ oslog[i].ok}

\* C19, as claimed: after any number of mints the database holds exactly one
\* service with the fixed short name and exactly one token row, that of the latest
\* mint, and no function row of a service that is gone.
MintLeavesOneToken ==
    Mints # {} =>
        /\ Cardinality({s \in lms_db.services : s.shortname = ServiceShortName}) = 1
        /\ Cardinality(lms_db.tokens) = 1
        /\ \A t \in lms_db.tokens : t.token = cache_file
        /\ \A f \in lms_db.functions : \E s \in lms_db.services : s.id = f.sid
        /\ \A t \in lms_db.tokens : \E s \in lms_db.services : s.id = t.sid

(***************************************************************************)
(* Publish runs: the readiness poll.                                       *)
(***************************************************************************)
\* this run's polls, in the order made
Polls == SelectSeq(netlog, LAMBDA e : e.call = "poll" /\ e.run = run)

TimedOut == \E k \in DOMAIN console : console[k].run = run /\ console[k].msg = "TimeoutError"

\* what holds of the poll in every state
PollGate ==
    /\ Len(Polls) <= MaxPolls
    /\ \A k \in DOMAIN Polls : Polls[k].status = "ok" => k = Len(Polls)
    /\ pc = "setup_moodle" => (Polls # <<>> /\ Polls[Len(Polls)].status = "ok")
    /\ (Ops("docker_exec") # {} \/ Ops("cache_write") # {}) =>
          (Polls # <<>> /\ Polls[Len(Polls)].status = "ok")
    /\ TimedOut =>
          /\ pc = "exited"
          /\ exit_code = 1
          /\ Len(Polls) = MaxPolls
          /\ \A k \in DOMAIN Polls : Polls[k].status # "ok"
          /\ Ops("docker_exec") = {}
          /\ Ops("cache_write") = {}
          /\ \A i \in DOMAIN netlog : netlog[i].run = run => netlog[i].call = "poll"

\* C20: a run that enters the readiness poll leaves it, for the mint after the
\* first poll answered with success (no poll follows a success) or by the timeout
\* error after MaxPolls polls without one; the mint and the cache write happen only
\* after a successful poll, and after the timeout the run has ended with exit code
\* 1 without a mint, a cache write or a REST call.
PollTerminates ==
    /\ []PollGate
    /\ (pc = "wait_for_moodle") ~> (pc \in {"setup_moodle", "exited"})

\* C20 witness: the first poll went unanswered, the second succeeded, and the token
\* was minted.
PollRetryWitness ==
    /\ Len(Polls) = 2
    /\ Polls[1].status # "ok"
    /\ Polls[2].status = "ok"
    /\ Ops("docker_exec") # {}
    /\ pc = "get_token"

(***************************************************************************)
(* Publish runs: the cached token.                                         *)
(***************************************************************************)
\* no explicit token, no setup flag, and a cache file holding a token
CachedTokenCase ==
    /\ ~truthy(args.token)
    /\ ~args.setup_moodle
    /\ cache_file # NoFile
    /\ truthy(cache_strip(cache_file))

\* what holds of the cached token in every state
CachedTokenGate ==
    /\ (CachedTokenCase /\ Ops("cache_write") = {}) =>
          /\ Calls("poll") = {}
          /\ Ops("docker_exec") = {}
          /\ pc \notin {"wait_for_moodle", "setup_moodle"}
          /\ pc # "resolve_token" =>
                /\ token = cache_strip(cache_file)
                /\ Cardinality(Ops("cache_read")) = 1
    /\ (Ops("cache_write") # {} /\ ~args.setup_moodle) =>
          /\ ~truthy(args.token)
          /\ cache_file = token
          /\ \E t \in lms_db.tokens : t.token = cache_file
          /\ Cardinality(Ops("cache_write")) = 1

\* C21: with no explicit token, no setup flag and a cache file holding a non-empty
\* token, the run uses the cached token, makes no readiness poll and no mint, and
\* no step changes the cache file; without the setup flag the mint step is taken
\* only when neither an explicit token nor a non-empty cached token is there, and
\* it writes the cache file with exactly the minted token.
CachedTokenPrecedence ==
    /\ []CachedTokenGate
    /\ [][/\ CachedTokenCase => cache_file' = cache_file
          /\ (pc = "setup_moodle" /\ ~args.setup_moodle) =>
                /\ ~truthy(args.token)
                /\ cache_file = NoFile \/ ~truthy(cache_strip(cache_file))
                /\ cache_file' # cache_file =>
                      /\ cache_file' = token'
                      /\ lms_db'.tokens = lms_db.tokens \cup {[token |-> cache_file',
                                                               sid |-> lms_db.next_id]}]_vars

\* C21 witness: no token was given, the cache file holds tokC, and the run has
\* validated tokC without a poll or a mint.
CachedTokenWitness ==
    /\ args.token = None
    /\ ~args.setup_moodle
    /\ cache_file = "tokC\n"
    /\ token = "tokC"
    /\ pc = "load_manifest"
    /\ Calls("poll") = {}
    /\ Ops("docker_exec") = {}
    /\ Cardinality(Calls("site_info")) = 1

(***************************************************************************)
(* Generation runs: the ledger writer.                                     *)
(***************************************************************************)
\* the entries of the generation runs that have completed update_manifest, in the
\* order of completion
Generated == [k \in 1..Len(gen.done) |-> GenEntry(gen.done[k])]

\* C22: with the calls of update_manifest made one after another, whenever no call
\* is under way the ledger file holds a list: the entries it held before the
\* first call (none for a missing or empty file), unchanged and in their order,
\* followed by the entry of each completed call in the order of the calls; while
\* a call is under way the list it is about to write is the ledger before the
\* call with its entry appended at the end.
ForwardAppend ==
    /\ NoneWriting =>
          /\ read_existing(manifest) = gen.start \o Generated
          /\ gen.done # <<>> => manifest.state = "list"
    /\ \A w \in Writers :
          gen.writers[w].pc \in {"open", "dump"} =>
              gen.writers[w].existing = Append(gen.start \o Generated, GenEntry(w))

\* C22 witness: three calls were made in the order 2, 1, 3 on a ledger that held one
\* entry, and the ledger holds the four entries in that order.
ForwardAppendWitness ==
    /\ gen.done = <<2, 1, 3>>
    /\ gen.start = <<Entry(NoField, "m0", "developer")>>
    /\ manifest.state = "list"
    /\ manifest.entries = <<Entry(NoField, "m0", "developer"), GenEntry(2), GenEntry(1),
                            GenEntry(3)>>

(***************************************************************************)
(* group_by_course: the groups.                                            *)
(***************************************************************************)
\* a sequence without repetitions
NoRepeat(s) == \A i, j \in DOMAIN s : s[i] = s[j] => i = j

\* the (course, module) groups of a grouping
GroupKeys(grouped) ==
    UNION {{<<c, m>> : m \in Range(grouped.val[c].modules.order)} :
              c \in Range(grouped.order)}

\* C23: the groups of group_by_course are those of the (course, module) keys of
\* the entries, the fallback course being the key of every entry without a
\* course_id; each key is held once; the group of a key holds the entries of that
\* key, all of them, once each and in ledger order, so no group is empty and the
\* groups together hold as many entries as the ledger.
GroupPartitions ==
    pc = "grouped" =>
        /\ NoRepeat(courses.order)
        /\ DOMAIN courses.val = Range(courses.order)
        /\ \A c \in Range(courses.order) :
              /\ NoRepeat(courses.val[c].modules.order)
              /\ DOMAIN courses.val[c].modules.val = Range(courses.val[c].modules.order)
        /\ GroupKeys(courses) = {<<CourseKey(e), ModuleKey(e)>> : e \in Range(entries)}
        /\ \A g \in GroupKeys(courses) :
              LET group == courses.val[g[1]].modules.val[g[2]]
              IN  /\ group # <<>>
                  /\ group = OfModule(entries, g[1], g[2])
        /\ Len(FlatOf(courses)) = Len(entries)
        /\ \A i \in DOMAIN entries :
              entries[i].course_id = NoField =>
                  /\ FallbackCourse \in Range(courses.order)
                  /\ \E m \in Range(courses.val[FallbackCourse].modules.order) :
                        entries[i] \in Range(courses.val[FallbackCourse].modules.val[m])
                  /\ \A g \in GroupKeys(courses) :
                        entries[i] \in Range(courses.val[g[1]].modules.val[g[2]]) =>
                            g = <<FallbackCourse, ModuleKey(entries[i])>>

\* C23 witness: two entries without a course_id, of one module and in the order
\* executive, developer, with an entry of c1 between them, have been grouped: the
\* fallback course holds the two in that order.
GroupPartitionWitness ==
    /\ pc = "grouped"
    /\ entries = <<Entry(NoField, "m1", "executive"), Entry("c1", "m1", "developer"),
                   Entry(NoField, "m1", "developer")>>
    /\ courses.order = <<FallbackCourse, "c1">>
    /\ courses.val[FallbackCourse].modules.val["m1"]
          = <<Entry(NoField, "m1", "executive"), Entry(NoField, "m1", "developer")>>

(***************************************************************************)
(* Publish runs: the course filter.                                        *)
(***************************************************************************)
\* the entries of the ledger file whose own course_id is the filter value
OwnMatches == SelectSeq(load_manifest(manifest), LAMBDA e : e.course_id = args.course_id)

\* the run has read the ledger
LedgerRead == pc \in {"course", "create_course", "module", "variant"} \/ (pc = "exited" /\ Validated)

\* this run's course lookups, course creations and requests of page creations
PublishingCalls ==
    {i \in DOMAIN netlog :
        /\ netlog[i].run = run
        /\ netlog[i].call \in {"get_courses_by_field", "create_courses"} \cup WebCalls}

\* C24, as claimed: with a filter the entries published are those whose own
\* course_id equals the filter value, and a run in which no entry matches exits
\* with code 1 without a lookup, a creation or a page submission.
FilterNoMatchExitsOne ==
    (truthy(args.course_id) /\ LedgerRead /\ manifest.state # "missing") =>
        /\ pc # "exited" => entries = OwnMatches
        /\ OwnMatches = <<>> =>
              /\ PublishingCalls = {}
              /\ pc = "exited" => exit_code = 1

\* C24, amended: with a filter, the entries of a non-empty ledger that are
\* published are those whose own course_id equals the filter value: an entry
\* without a course_id is never among them, also when the filter value is the
\* fallback course key, and every lookup, creation and file test of the run is for
\* the filter's course and a matching entry.  When the ledger holds entries and
\* none matches, the run exits with code 1 without a lookup, a creation or a page
\* submission; over an empty ledger it exits with code 0, the filter not being
\* applied.
FilterByOwnCourseId ==
    (truthy(args.course_id) /\ LedgerRead /\ manifest.state # "missing") =>
        /\ \A e \in Range(entries) : e.course_id = args.course_id /\ e.course_id # NoField
        /\ entries # <<>> => entries = OwnMatches
        /\ (pc # "exited" \/ PublishingCalls # {}) => entries = OwnMatches /\ entries # <<>>
        /\ \A i \in PublishingCalls :
              netlog[i].call \in {"get_courses_by_field", "create_courses"} =>
                  netlog[i].idnumber = args.course_id
        /\ \A k \in DOMAIN FileChecks :
              \E e \in Range(OwnMatches) : FileChecks[k].path = e.output_file
        /\ (OwnMatches = <<>> /\ load_manifest(manifest) # <<>>) =>
              /\ pc = "exited"
              /\ exit_code = 1
              /\ console[Len(console)].msg = "no_variants"
              /\ PublishingCalls = {}
              /\ FileChecks = <<>>
        /\ load_manifest(manifest) = <<>> =>
              /\ pc = "exited"
              /\ exit_code = 0
              /\ console[Len(console)].msg = "manifest_empty"
              /\ PublishingCalls = {}

\* C24 witness: the filter value is the fallback course key and the ledger holds
\* one entry, without a course_id; the run has exited with code 1 and made no
\* lookup.
FilterFallbackWitness ==
    /\ args.course_id = FallbackCourse
    /\ manifest.entries = <<Entry(NoField, "m1", "developer")>>
    /\ manifest.state = "list"
    /\ Validated
    /\ pc = "exited"
    /\ exit_code = 1
    /\ console[Len(console)].msg = "no_variants"
    /\ PublishingCalls = {}

(***************************************************************************)
(* Generation runs: update_manifest calls under way at the same time.      *)
(***************************************************************************)
\* the calls that have returned
CallsDone == {w \in Writers : gen.writers[w].pc = "done"}

\* C25: with the reads and rewrites of update_manifest calls interleaved in any
\* order, once every call that started has returned the ledger holds the entries
\* present before and the entry of every call.
NoEntryLost ==
    (NoneWriting /\ Cardinality(CallsDone) >= 2) =>
        /\ manifest.state = "list"
        /\ \A e \in Range(gen.start) : e \in Range(manifest.entries)
        /\ \A w \in CallsDone : GenEntry(w) \in Range(manifest.entries)
        /\ Len(manifest.entries) = Len(gen.start) + Cardinality(CallsDone)

====
